---------------------------- MODULE Spec2Model ----------------------------
(***************************************************************************)
(* Wildlife corridor network design: the reduction of habitat geometry to  *)
(* a capacitated network (WildlifeCorridorNetwork) and the Edmonds-Karp    *)
(* maximum-flow engine (MaxFlow) of src/problem1_network_flow.cpp.         *)
(***************************************************************************)
EXTENDS Integers, Sequences, FiniteSets, TLC

(* ------------------------------ bounds -------------------------------- *)
\* largest number of nodes / habitats of a modelled network
MaxNodes == 3
\* largest capacity a direct caller of MaxFlow::addEdge passes
MaxCap == 2
\* habitats of Spec lie on a line, at the points (0 .. GridX) x {0}, and
\* buildCorridorNetwork is called with maxCorridorDistance in 1 .. MaxDist
GridX == 2
MaxDist == 2
\* habitats of SpecBuild lie at the points (0 .. BuildGridX) x (0 .. BuildGridY)
\* and maxCorridorDistance is in 1 .. BuildMaxDist
BuildGridX == 4
BuildGridY == 1
BuildMaxDist == 5
\* largest amount by which one edge's capacity is raised when two networks
\* are compared
MaxIncrease == 2
\* number of nodes of the unit-capacity networks of SpecPaths
PathNodes == 4
\* largest number of addEdge calls of a direct caller of SpecCalls
MaxCalls == 2

(* --------------------------- program constants ------------------------ *)
INT_MAX == 2147483647

VARIABLES
    mode,          \* "engine": MaxFlow used directly; "driver": WildlifeCorridorNetwork
    n,             \* MaxFlow::n / WildlifeCorridorNetwork::numHabitats
    source,        \* maxflow's source / sourceHabitat
    sink,          \* maxflow's sink / targetHabitat
    calls,         \* the addEdge calls a direct caller is about to make
    habitatLocations, \* WildlifeCorridorNetwork::habitatLocations
    maxDist,       \* the maxCorridorDistance buildCorridorNetwork is called with
    corridorCapacity, \* WildlifeCorridorNetwork::corridorCapacity
    edges,         \* history: the addEdge calls made so far, in order
    capacity,      \* MaxFlow::capacity, the residual matrix
    adj,           \* MaxFlow::adj
    initial,       \* history: capacity as it was when maxflow was entered
    parent,        \* maxflow's local vector parent
    q,             \* bfs's local queue of (node, flow) pairs
    v,             \* the loop variable of maxflow's two for loops
    path_flow,     \* maxflow's local path_flow
    flow,          \* maxflow's local flow
    maxFlow,       \* the value maxflow returned
    usedCorridors, \* the list getUsedCorridors returned
    pc             \* position in the program

\* what the caller supplies and no operation changes
inputs == <<mode, n, source, sink, calls, habitatLocations, maxDist>>

vars == <<inputs, corridorCapacity, edges, capacity, adj, initial, parent,
          q, v, path_flow, flow, maxFlow, usedCorridors, pc>>

Nodes(k) == 0 .. (k - 1)

Min(a, b) == IF a < b THEN a ELSE b

Max(a, b) == IF a > b THEN a ELSE b

(* ------------------ IEEE-754 binary64 (double) arithmetic -------------- *)
(* The capacity rule is computed in C++ doubles.  A natural number of any  *)
(* size is a sequence of limbs in base 2^15, least significant first and   *)
(* without leading zero limbs; a non-negative double is [m, e], the value  *)
(* m * 2^e with m < 2^53 (or m = 2^53 after a carry out of the rounding).  *)
Base == 2 ^ 15

Limb(a, i) == IF i <= Len(a) THEN a[i] ELSE 0

RECURSIVE BNorm(_)
BNorm(a) ==
    IF a = << >> THEN a
    ELSE IF a[Len(a)] = 0 THEN BNorm(SubSeq(a, 1, Len(a) - 1)) ELSE a

BFromInt(x) == BNorm(<<x % Base, x \div Base>>)

BToInt(a) == Limb(a, 1) + Base * Limb(a, 2)

RECURSIVE BAddC(_, _, _, _)
BAddC(a, b, i, c) ==
    IF i > Len(a) /\ i > Len(b) THEN (IF c = 0 THEN << >> ELSE <<c>>)
    ELSE LET s == Limb(a, i) + Limb(b, i) + c
         IN  <<s % Base>> \o BAddC(a, b, i + 1, s \div Base)

BAdd(a, b) == BAddC(a, b, 1, 0)

\* a - b for a >= b
RECURSIVE BSubC(_, _, _, _)
BSubC(a, b, i, c) ==
    IF i > Len(a) THEN << >>
    ELSE LET s == Limb(a, i) - Limb(b, i) - c
         IN  IF s < 0 THEN <<s + Base>> \o BSubC(a, b, i + 1, 1)
             ELSE <<s>> \o BSubC(a, b, i + 1, 0)

BSub(a, b) == BNorm(BSubC(a, b, 1, 0))

\* a * k for 0 <= k < Base
RECURSIVE BMulSmallC(_, _, _, _)
BMulSmallC(a, k, i, c) ==
    IF i > Len(a) THEN (IF c = 0 THEN << >> ELSE <<c>>)
    ELSE LET s == a[i] * k + c
         IN  <<s % Base>> \o BMulSmallC(a, k, i + 1, s \div Base)

BMulSmall(a, k) == BNorm(BMulSmallC(a, k, 1, 0))

BShlLimbs(a, j) == IF a = << >> THEN a ELSE [i \in 1 .. j |-> 0] \o a

RECURSIVE BMulC(_, _, _)
BMulC(a, b, i) ==
    IF i > Len(b) THEN << >>
    ELSE BAdd(BShlLimbs(BMulSmall(a, b[i]), i - 1), BMulC(a, b, i + 1))

BMul(a, b) == BNorm(BMulC(a, b, 1))

\* -1, 0, 1 as a < b, a = b, a > b; i is the limb compared, from the top
RECURSIVE BCmpC(_, _, _)
BCmpC(a, b, i) ==
    IF i = 0 THEN 0
    ELSE IF a[i] < b[i] THEN -1
    ELSE IF a[i] > b[i] THEN 1
    ELSE BCmpC(a, b, i - 1)

BCmp(a, b) ==
    IF Len(a) < Len(b) THEN -1
    ELSE IF Len(a) > Len(b) THEN 1
    ELSE BCmpC(a, b, Len(a))

\* quotient and remainder of a by k, 0 < k <= Base; limbs i .. 1 still to do
RECURSIVE BDivSmallC(_, _, _, _)
BDivSmallC(a, k, i, r) ==
    IF i = 0 THEN [q |-> << >>, r |-> r]
    ELSE LET cur  == r * Base + a[i]
             rest == BDivSmallC(a, k, i - 1, cur % k)
         IN  [q |-> rest.q \o <<cur \div k>>, r |-> rest.r]

BDivSmall(a, k) ==
    LET d == BDivSmallC(a, k, Len(a), 0) IN [q |-> BNorm(d.q), r |-> d.r]

\* a * 2^bits and floor(a / 2^bits)
BShl(a, bits) == BShlLimbs(BMulSmall(a, 2 ^ (bits % 15)), bits \div 15)

BShr(a, bits) ==
    IF bits \div 15 >= Len(a) THEN << >>
    ELSE BDivSmall(SubSeq(a, (bits \div 15) + 1, Len(a)), 2 ^ (bits % 15)).q

RECURSIVE BitLenSmall(_)
BitLenSmall(x) == IF x = 0 THEN 0 ELSE 1 + BitLenSmall(x \div 2)

BBitLen(a) ==
    IF a = << >> THEN 0 ELSE 15 * (Len(a) - 1) + BitLenSmall(a[Len(a)])

BIsOdd(a) == Limb(a, 1) % 2 = 1

\* x * 2^e rounded to a double: 53 significant bits, ties to even
Round53(x, e) ==
    LET len == BBitLen(x) IN
    IF len <= 53 THEN [m |-> x, e |-> IF x = << >> THEN 0 ELSE e]
    ELSE LET s    == len - 53
             hi   == BShr(x, s)
             lo   == BSub(x, BShl(hi, s))
             half == BShl(<<1>>, s - 1)
             c    == BCmp(lo, half)
             up   == c = 1 \/ (c = 0 /\ BIsOdd(hi))
         IN  [m |-> IF up THEN BAdd(hi, <<1>>) ELSE hi, e |-> e + s]

\* the double holding the integer x, 0 <= x < 2^30
DFromInt(x) == [m |-> BFromInt(x), e |-> 0]

\* floor(sqrt(x)), bit by bit from the top: r is the root so far
RECURSIVE BSqrtC(_, _, _)
BSqrtC(x, r, bit) ==
    IF bit < 0 THEN r
    ELSE LET cand == BAdd(r, BShl(<<1>>, bit))
         IN  IF BCmp(BMul(cand, cand), x) <= 0
             THEN BSqrtC(x, cand, bit - 1)
             ELSE BSqrtC(x, r, bit - 1)

\* sqrt(x) for a double holding an integer 0 <= x < 2^15: correctly rounded
DSqrt(x) ==
    LET big    == BShl(x.m, 108)
        r      == BSqrtC(big, << >>, 61)
        sticky == IF BCmp(BMul(r, r), big) = 0 THEN 0 ELSE 1
    IN  Round53(BAdd(BMulSmall(r, 2), BFromInt(sticky)), -55)

\* x / k for a double x and an integer 0 < k < 2^15: correctly rounded
DDivInt(x, k) ==
    LET d      == BDivSmall(BShl(x.m, 64), k)
        sticky == IF d.r = 0 THEN 0 ELSE 1
    IN  Round53(BAdd(BMulSmall(d.q, 2), BFromInt(sticky)), x.e - 65)

\* 1.0 - x for a double 0 <= x <= 1
DOneMinus(x) == Round53(BSub(BShl(<<1>>, 0 - x.e), x.m), x.e)

\* k * x for an integer 0 <= k < 2^15
DMulInt(k, x) == Round53(BMulSmall(x.m, k), x.e)

DMul(x, y) == Round53(BMul(x.m, y.m), x.e + y.e)

\* x > k for an integer 0 <= k < 2^30
DGreaterInt(x, k) ==
    IF x.e >= 0 THEN BCmp(BShl(x.m, x.e), BFromInt(k)) = 1
    ELSE BCmp(x.m, BShl(BFromInt(k), 0 - x.e)) = 1

\* (int) x for a double 0 <= x < 2^30
DToInt(x) ==
    IF x.e >= 0 THEN BToInt(BShl(x.m, x.e)) ELSE BToInt(BShr(x.m, 0 - x.e))

(* ---------------------- WildlifeCorridorNetwork ----------------------- *)
\* dx * dx + dy * dy of distance(h1, h2): exact for integer coordinates
squaredDistance(locs, h1, h2) ==
    LET dx == locs[h1][1] - locs[h2][1]
        dy == locs[h1][2] - locs[h2][2]
    IN  dx * dx + dy * dy

\* distance(h1, h2), the double sqrt(dx * dx + dy * dy)
distance(d2) == DSqrt(DFromInt(d2))

\* the body of calculateCorridorCapacity for two habitats whose squared
\* distance is d2 and an integer maxDist > 0
capacityRule(d2, maxDistance) ==
    LET dist == distance(d2) IN
    IF DGreaterInt(dist, maxDistance) THEN 0
    ELSE LET normalized == DOneMinus(DDivInt(dist, maxDistance))
             cap == DToInt(DMul(DMulInt(100, normalized), normalized))
         IN  Max(1, cap)

\* capacityRule, computed once for every squared distance and maxDist modelled
CapacityTable ==
    LET gx == Max(GridX, BuildGridX)
        gy == BuildGridY
    IN  [d2 \in {dx * dx + dy * dy : dx \in 0 .. gx, dy \in 0 .. gy},
         m \in 1 .. Max(MaxDist, BuildMaxDist) |-> capacityRule(d2, m)]

\* calculateCorridorCapacity(h1, h2, maxDist)
calculateCorridorCapacity(locs, h1, h2, maxDistance) ==
    CapacityTable[squaredDistance(locs, h1, h2), maxDistance]

\* buildCorridorNetwork(maxCorridorDistance) on the map cc: every pair i < j
\* with a positive capacity is (re)assigned, the other entries are kept
buildCorridorNetwork(cc, locs, k, maxDistance) ==
    LET feasible == {p \in Nodes(k) \X Nodes(k) :
                        /\ p[1] < p[2]
                        /\ calculateCorridorCapacity(locs, p[1], p[2], maxDistance) > 0}
    IN  [p \in (DOMAIN cc) \cup feasible |->
            IF p \in feasible
            THEN calculateCorridorCapacity(locs, p[1], p[2], maxDistance)
            ELSE cc[p]]

(* ------------------------------ MaxFlow ------------------------------- *)
\* MaxFlow(int n): an n x n matrix of zeros and n empty adjacency lists
NewMaxFlow(k) ==
    [capacity |-> [a \in Nodes(k) |-> [b \in Nodes(k) |-> 0]],
     adj      |-> [a \in Nodes(k) |-> << >>]]

\* MaxFlow::addEdge(u, w, cap) on the engine state mf
addEdge(mf, u, w, cap) ==
    LET first == mf.capacity[u][w] = 0 /\ mf.capacity[w][u] = 0
        adj1  == IF first THEN [mf.adj EXCEPT ![u] = Append(@, w)] ELSE mf.adj
        adj2  == IF first THEN [adj1 EXCEPT ![w] = Append(@, u)] ELSE adj1
    IN  [capacity |-> [mf.capacity EXCEPT ![u][w] = @ + cap],
         adj      |-> adj2]

\* a sequence of addEdge calls <<u, w, cap>> applied in order
RECURSIVE AddEdges(_, _)
AddEdges(mf, cs) ==
    IF cs = << >> THEN mf
    ELSE AddEdges(addEdge(mf, cs[1][1], cs[1][2], cs[1][3]), Tail(cs))

\* bfsStart without parent[source] = source
bfsStart_NoSourceMark(k, s) ==
    [parent |-> [a \in Nodes(k) |-> -1],
     q      |-> << <<s, INT_MAX>> >>,
     found  |-> FALSE]

\* bfs, the statements before the while loop
bfsStart(k, s) ==
    [parent |-> [[a \in Nodes(k) |-> -1] EXCEPT ![s] = s],
     q      |-> << <<s, INT_MAX>> >>,
     found  |-> FALSE]

\* bfsScan with the test capacity[u][v] >= 0 in place of capacity[u][v] > 0
RECURSIVE bfsScan_ZeroArcs(_, _, _, _, _, _, _, _)
bfsScan_ZeroArcs(cap, nbrs, i, u, f, t, par, qu) ==
    IF i > Len(nbrs) THEN [parent |-> par, q |-> qu, found |-> FALSE]
    ELSE LET w == nbrs[i] IN
         IF par[w] = -1 /\ cap[u][w] >= 0
         THEN LET par1 == [par EXCEPT ![w] = u]
                  new_flow == Min(f, cap[u][w])
              IN  IF w = t
                  THEN [parent |-> par1, q |-> qu, found |-> TRUE]
                  ELSE bfsScan_ZeroArcs(cap, nbrs, i + 1, u, f, t, par1,
                                        Append(qu, <<w, new_flow>>))
         ELSE bfsScan_ZeroArcs(cap, nbrs, i + 1, u, f, t, par, qu)

\* bfsScan without the test parent[v] == -1: a node is given a new predecessor
\* every time it is met
RECURSIVE bfsScan_Revisit(_, _, _, _, _, _, _, _)
bfsScan_Revisit(cap, nbrs, i, u, f, t, par, qu) ==
    IF i > Len(nbrs) THEN [parent |-> par, q |-> qu, found |-> FALSE]
    ELSE LET w == nbrs[i] IN
         IF cap[u][w] > 0
         THEN LET par1 == [par EXCEPT ![w] = u]
                  new_flow == Min(f, cap[u][w])
              IN  IF w = t
                  THEN [parent |-> par1, q |-> qu, found |-> TRUE]
                  ELSE bfsScan_Revisit(cap, nbrs, i + 1, u, f, t, par1,
                                       Append(qu, <<w, new_flow>>))
         ELSE bfsScan_Revisit(cap, nbrs, i + 1, u, f, t, par, qu)

\* bfs, the for loop over adj[u] from the i-th neighbour on
RECURSIVE bfsScan(_, _, _, _, _, _, _, _)
bfsScan(cap, nbrs, i, u, f, t, par, qu) ==
    IF i > Len(nbrs) THEN [parent |-> par, q |-> qu, found |-> FALSE]
    ELSE LET w == nbrs[i] IN
         IF par[w] = -1 /\ cap[u][w] > 0
         THEN LET par1 == [par EXCEPT ![w] = u]
                  new_flow == Min(f, cap[u][w])
              IN  IF w = t
                  THEN [parent |-> par1, q |-> qu, found |-> TRUE]
                  ELSE bfsScan(cap, nbrs, i + 1, u, f, t, par1,
                               Append(qu, <<w, new_flow>>))
         ELSE bfsScan(cap, nbrs, i + 1, u, f, t, par, qu)

\* bfs, one iteration of the while loop: pop the front and scan its neighbours
bfsVisit(cap, ad, t, par, qu) ==
    LET u == qu[1][1]
        f == qu[1][2]
    IN  bfsScan(cap, ad[u], 1, u, f, t, par, Tail(qu))

\* walkMin that forgets the minimum: path_flow = capacity[u][v]
walkMin_NoMin(cap, par, w, pf) == cap[par[w]][w]

\* walkMin with max in place of min, path_flow starting from 0
walkMin_Max(cap, par, w, pf) == Max(IF pf = INT_MAX THEN 0 ELSE pf, cap[par[w]][w])

\* maxflow, one iteration of the first for loop: the bottleneck so far
walkMin(cap, par, w, pf) == Min(pf, cap[par[w]][w])

\* walkUpdate that forgets capacity[v][u] += path_flow
walkUpdate_NoReverse(cap, par, w, pf) == [cap EXCEPT ![par[w]][w] = @ - pf]

\* walkUpdate with the two arcs exchanged
walkUpdate_Swapped(cap, par, w, pf) ==
    LET u  == par[w]
        c1 == [cap EXCEPT ![w][u] = @ - pf]
    IN  [c1 EXCEPT ![u][w] = @ + pf]

\* maxflow, one iteration of the second for loop: move pf along arc parent[w] -> w
walkUpdate(cap, par, w, pf) ==
    LET u  == par[w]
        c1 == [cap EXCEPT ![u][w] = @ - pf]
    IN  [c1 EXCEPT ![w][u] = @ + pf]

\* getUsedCorridors(numHabitats), the inner loop over j from j0 on for a fixed i
RECURSIVE usedFrom(_, _, _, _)
usedFrom(cap, k, i, j) ==
    IF i >= k THEN << >>
    ELSE IF j >= k THEN usedFrom(cap, k, i + 1, i + 2)
    ELSE IF cap[j][i] > 0
         THEN << <<i, j, cap[j][i]>> >> \o usedFrom(cap, k, i, j + 1)
         ELSE usedFrom(cap, k, i, j + 1)

\* MaxFlow::getUsedCorridors(numHabitats)
getUsedCorridors(cap, k) == usedFrom(cap, k, 0, 1)

\* bfs, its while loop run to the end from the search state b
RECURSIVE bfsRun(_, _, _, _)
bfsRun(cap, ad, t, b) ==
    IF b.found \/ b.q = << >> THEN b
    ELSE bfsRun(cap, ad, t, bfsVisit(cap, ad, t, b.parent, b.q))

\* MaxFlow::bfs(source, sink, parent): found is the value returned
bfs(cap, ad, k, s, t) == bfsRun(cap, ad, t, bfsStart(k, s))

\* maxflow, its first for loop from node w on
RECURSIVE pathFlow(_, _, _, _, _)
pathFlow(cap, par, w, s, pf) ==
    IF w = s THEN pf ELSE pathFlow(cap, par, par[w], s, walkMin(cap, par, w, pf))

\* maxflow, its second for loop from node w on
RECURSIVE pushFlow(_, _, _, _, _)
pushFlow(cap, par, w, s, pf) ==
    IF w = s THEN cap ELSE pushFlow(walkUpdate(cap, par, w, pf), par, par[w], s, pf)

\* maxflowLoop with flow = path_flow in place of flow += path_flow
RECURSIVE maxflowLoop_NoSum(_, _, _, _, _, _)
maxflowLoop_NoSum(cap, ad, k, s, t, fl) ==
    LET b == bfs(cap, ad, k, s, t) IN
    IF ~b.found THEN fl
    ELSE LET pf == pathFlow(cap, b.parent, t, s, INT_MAX)
         IN  maxflowLoop_NoSum(pushFlow(cap, b.parent, t, s, pf), ad, k, s, t, pf)

\* maxflow, its while loop with fl in flow: the value returned
RECURSIVE maxflowLoop(_, _, _, _, _, _)
maxflowLoop(cap, ad, k, s, t, fl) ==
    LET b == bfs(cap, ad, k, s, t) IN
    IF ~b.found THEN fl
    ELSE LET pf == pathFlow(cap, b.parent, t, s, INT_MAX)
         IN  maxflowLoop(pushFlow(cap, b.parent, t, s, pf), ad, k, s, t, fl + pf)

\* MaxFlow::maxflow(source, sink) on the engine state mf of k nodes
maxflow(mf, k, s, t) == maxflowLoop(mf.capacity, mf.adj, k, s, t, 0)

(* ------------------------------ inputs -------------------------------- *)
\* the pairs <<i, j>> with i < j < k in lexicographic order, from <<i, j>> on:
\* the order of the nested loops over i and j, and of a std::map keyed by pair
RECURSIVE PairsFrom(_, _, _)
PairsFrom(k, i, j) ==
    IF i >= k THEN << >>
    ELSE IF j >= k THEN PairsFrom(k, i + 1, i + 2)
    ELSE << <<i, j>> >> \o PairsFrom(k, i, j + 1)

Pairs(k) == PairsFrom(k, 0, 1)

\* the edge lists of a direct caller: one arc u -> w per pair u < w
CallLists(k) ==
    LET ps == Pairs(k) IN
    { [i \in 1 .. Len(ps) |-> <<ps[i][1], ps[i][2], c[i]>>] :
          c \in [1 .. Len(ps) -> 0 .. MaxCap] }

\* the directed networks the documentation names: one arc of capacity 5 on two
\* nodes, and the diamond 0->1 (3), 0->2 (2), 1->3 (2), 2->3 (3)
Diamond == << <<0, 1, 3>>, <<0, 2, 2>>, <<1, 3, 2>>, <<2, 3, 3>> >>

Scenarios == { <<2, << <<0, 1, 5>> >> >>, <<4, Diamond>> }

\* the edge lists of a direct caller on k nodes whose arcs all have capacity 1:
\* every set of arcs u -> w with u < w, a call with capacity 0 for an absent arc
UnitLists(k) ==
    LET ps == Pairs(k) IN
    { [i \in 1 .. Len(ps) |-> <<ps[i][1], ps[i][2], c[i]>>] :
          c \in [1 .. Len(ps) -> 0 .. 1] }

\* solve, the addEdge calls of its loop over corridorCapacity in key order
RECURSIVE corridorCalls(_, _)
corridorCalls(cc, ps) ==
    IF ps = << >> THEN << >>
    ELSE IF ps[1] \in DOMAIN cc
         THEN << <<ps[1][1], ps[1][2], cc[ps[1]]>>,
                 <<ps[1][2], ps[1][1], cc[ps[1]]>> >> \o corridorCalls(cc, Tail(ps))
         ELSE corridorCalls(cc, Tail(ps))

\* the edge lists of a direct caller that makes at most MaxCalls calls
\* addEdge(u, w, cap) with u # w and cap >= 0, in any order and direction and
\* with repetitions
CallSeqs(k) ==
    LET call == {c \in Nodes(k) \X Nodes(k) \X (0 .. MaxCap) : c[1] # c[2]}
    IN  UNION {[1 .. l -> call] : l \in 0 .. MaxCalls}

NoCorridors == [p \in {} |-> 0]

(* ------------------------------ actions ------------------------------- *)
\* the state of the engine and of the locals before anything has run
InitRest ==
    /\ source \in Nodes(n)
    /\ sink \in Nodes(n)
    /\ corridorCapacity = NoCorridors
    /\ edges = << >>
    /\ capacity = NewMaxFlow(n).capacity
    /\ adj = NewMaxFlow(n).adj
    /\ initial = NewMaxFlow(n).capacity
    /\ parent = [a \in Nodes(n) |-> 0]
    /\ q = << >>
    /\ v = 0
    /\ path_flow = 0
    /\ flow = 0
    /\ maxFlow = 0
    /\ usedCorridors = << >>

\* a caller that has constructed MaxFlow(n) and is about to add its edges
InitEngine ==
    /\ mode = "engine"
    /\ \/ /\ n \in 2 .. MaxNodes
          /\ calls \in CallLists(n)
       \/ \E sc \in Scenarios : n = sc[1] /\ calls = sc[2]
    /\ habitatLocations = << >>
    /\ maxDist = 0
    /\ pc = "fresh"
    /\ InitRest

\* WildlifeCorridorNetwork(n, source, sink) with every habitat located at a
\* point of (0 .. gx) x (0 .. gy), about to be built with a maxDist in 1 .. md
InitDriver(gx, gy, md) ==
    /\ mode = "driver"
    /\ n \in 2 .. MaxNodes
    /\ calls = << >>
    /\ habitatLocations \in [Nodes(n) -> (0 .. gx) \X (0 .. gy)]
    /\ maxDist \in 1 .. md
    /\ pc = "located"
    /\ InitRest

Init == InitEngine \/ InitDriver(GridX, 0, MaxDist)

InitBuild == InitEngine \/ InitDriver(BuildGridX, BuildGridY, BuildMaxDist)

\* a caller that has constructed MaxFlow(PathNodes) and is about to add the
\* arcs of a unit-capacity network
InitUnit ==
    /\ mode = "engine"
    /\ n = PathNodes
    /\ calls \in UnitLists(n)
    /\ habitatLocations = << >>
    /\ maxDist = 0
    /\ pc = "fresh"
    /\ InitRest

\* a caller that has constructed MaxFlow(n) and is about to make any calls
InitCalls ==
    /\ mode = "engine"
    /\ n \in 2 .. MaxNodes
    /\ calls \in CallSeqs(n)
    /\ habitatLocations = << >>
    /\ maxDist = 0
    /\ pc = "fresh"
    /\ InitRest

InitSequences == InitCalls \/ InitDriver(GridX, 0, MaxDist)

InitPaths == InitUnit \/ InitDriver(GridX, 0, MaxDist)

\* a direct caller adds its edges to a fresh engine
CallerAddEdges ==
    /\ pc = "fresh"
    /\ LET mf == AddEdges([capacity |-> capacity, adj |-> adj], calls) IN
       /\ capacity' = mf.capacity
       /\ adj' = mf.adj
    /\ edges' = edges \o calls
    /\ pc' = "loaded"
    /\ UNCHANGED <<inputs, corridorCapacity, initial, parent, q, v,
                   path_flow, flow, maxFlow, usedCorridors>>

\* buildCorridorNetwork(maxDist)
BuildCorridorNetwork ==
    /\ pc = "located"
    /\ corridorCapacity' =
           buildCorridorNetwork(corridorCapacity, habitatLocations, n, maxDist)
    /\ pc' = "built"
    /\ UNCHANGED <<inputs, edges, capacity, adj, initial, parent, q, v,
                   path_flow, flow, maxFlow, usedCorridors>>

\* solve, up to the call of maxflow: MaxFlow mf(numHabitats) and the loop that
\* adds every corridor in both directions
SolveAddEdges ==
    /\ pc = "built"
    /\ LET cs == corridorCalls(corridorCapacity, Pairs(n))
           mf == AddEdges(NewMaxFlow(n), cs)
       IN  /\ capacity' = mf.capacity
           /\ adj' = mf.adj
           /\ edges' = cs
    /\ pc' = "loaded"
    /\ UNCHANGED <<inputs, corridorCapacity, initial, parent, q, v,
                   path_flow, flow, maxFlow, usedCorridors>>

\* maxflow(source, sink) is entered: flow = 0, parent(n)
MaxflowEnter ==
    /\ pc = "loaded"
    /\ flow' = 0
    /\ parent' = [a \in Nodes(n) |-> 0]
    /\ initial' = capacity
    /\ pc' = "bfs"
    /\ UNCHANGED <<inputs, corridorCapacity, edges, capacity, adj, q, v,
                   path_flow, maxFlow, usedCorridors>>

\* bfs is called by the while condition
BfsStart ==
    /\ pc = "bfs"
    /\ LET b == bfsStart(n, source) IN
       /\ parent' = b.parent
       /\ q' = b.q
    /\ pc' = "bfs_loop"
    /\ UNCHANGED <<inputs, corridorCapacity, edges, capacity, adj, initial,
                   v, path_flow, flow, maxFlow, usedCorridors>>

\* one iteration of bfs's while loop; on reaching sink bfs returns true and
\* maxflow starts its first for loop
BfsVisit ==
    /\ pc = "bfs_loop"
    /\ q # << >>
    /\ LET b == bfsVisit(capacity, adj, sink, parent, q) IN
       /\ parent' = b.parent
       /\ q' = b.q
       /\ IF b.found
          THEN /\ pc' = "walk_min"
               /\ path_flow' = INT_MAX
               /\ v' = sink
          ELSE /\ pc' = "bfs_loop"
               /\ UNCHANGED <<path_flow, v>>
    /\ UNCHANGED <<inputs, corridorCapacity, edges, capacity, adj, initial,
                   flow, maxFlow, usedCorridors>>

\* the queue is empty: bfs returns false, the while loop ends, maxflow returns flow
BfsFail ==
    /\ pc = "bfs_loop"
    /\ q = << >>
    /\ maxFlow' = flow
    /\ pc' = "returned"
    /\ UNCHANGED <<inputs, corridorCapacity, edges, capacity, adj, initial,
                   parent, q, v, path_flow, flow, usedCorridors>>

\* one iteration of the first for loop, or its exit into the second
WalkMin ==
    /\ pc = "walk_min"
    /\ IF v # source
       THEN /\ path_flow' = walkMin(capacity, parent, v, path_flow)
            /\ v' = parent[v]
            /\ pc' = "walk_min"
       ELSE /\ v' = sink
            /\ pc' = "walk_update"
            /\ UNCHANGED path_flow
    /\ UNCHANGED <<inputs, corridorCapacity, edges, capacity, adj, initial,
                   parent, q, flow, maxFlow, usedCorridors>>

\* one iteration of the second for loop, or its exit: flow += path_flow
WalkUpdate ==
    /\ pc = "walk_update"
    /\ IF v # source
       THEN /\ capacity' = walkUpdate(capacity, parent, v, path_flow)
            /\ v' = parent[v]
            /\ pc' = "walk_update"
            /\ UNCHANGED flow
       ELSE /\ flow' = flow + path_flow
            /\ pc' = "bfs"
            /\ UNCHANGED <<capacity, v>>
    /\ UNCHANGED <<inputs, corridorCapacity, edges, adj, initial, parent,
                   q, path_flow, maxFlow, usedCorridors>>

\* getUsedCorridors(numHabitats) on the final residual matrix
GetUsedCorridors ==
    /\ pc = "returned"
    /\ usedCorridors' = getUsedCorridors(capacity, n)
    /\ pc' = "done"
    /\ UNCHANGED <<inputs, corridorCapacity, edges, capacity, adj, initial,
                   parent, q, v, path_flow, flow, maxFlow>>

Next ==
    \/ CallerAddEdges
    \/ BuildCorridorNetwork
    \/ SolveAddEdges
    \/ MaxflowEnter
    \/ BfsStart
    \/ BfsVisit
    \/ BfsFail
    \/ WalkMin
    \/ WalkUpdate
    \/ GetUsedCorridors

Spec == Init /\ [][Next]_vars

\* the steps of one call of maxflow
Maxflow ==
    \/ MaxflowEnter
    \/ BfsStart
    \/ BfsVisit
    \/ BfsFail
    \/ WalkMin
    \/ WalkUpdate

\* maxflow is sequential code and nothing suspends it: while it has a step to
\* take, it takes it
SpecFair == Spec /\ WF_vars(Maxflow)

\* the same program on the wider geometry
SpecBuild == InitBuild /\ [][Next]_vars

\* the same program on the unit-capacity networks of PathNodes nodes
SpecPaths == InitPaths /\ [][Next]_vars

\* the same program after arbitrary sequences of addEdge calls
SpecCalls == InitSequences /\ [][Next]_vars

(* ------------------------------ claims -------------------------------- *)
\* f[0] + ... + f[k - 1]
RECURSIVE SumNodes(_, _)
SumNodes(f, k) == IF k = 0 THEN 0 ELSE f[k - 1] + SumNodes(f, k - 1)

\* the capacity under c0 of the cut (S, rest): the arcs from S to outside S
CutCapacity(c0, k, S) ==
    SumNodes([u \in Nodes(k) |->
                 SumNodes([w \in Nodes(k) |->
                              IF u \in S /\ w \notin S THEN c0[u][w] ELSE 0], k)], k)

\* the least capacity of a cut with s on the one side and t on the other
MinCut(c0, k, s, t) ==
    LET cuts == {CutCapacity(c0, k, S \cup {s}) : S \in SUBSET (Nodes(k) \ {s, t})}
    IN  CHOOSE m \in cuts : \A x \in cuts : m <= x

\* maxflow has returned
Returned == pc \in {"returned", "done"}

\* the capacity matrix is not in the middle of an augmenting-path update
BetweenAugmentations == pc \in {"bfs", "bfs_loop", "walk_min", "returned", "done"}

\* the edges have been added to the engine
Loaded == pc \notin {"fresh", "located", "built"}

\* every pair of the three habitats has a corridor, all of capacity c
Triangle(c) ==
    /\ mode = "driver"
    /\ n = 3
    /\ DOMAIN corridorCapacity = {<<0, 1>>, <<0, 2>>, <<1, 2>>}
    /\ \A p \in DOMAIN corridorCapacity : corridorCapacity[p] = c

\* C1: for source # sink the value maxflow returns is the least capacity,
\* under the capacities maxflow started from, of a cut separating source from
\* sink; the diamond yields 4 and a triangle of capacity c yields 2c.
C1_MaxFlowIsMinCut ==
    Returned /\ source # sink =>
        /\ maxFlow = MinCut(initial, n, source, sink)
        /\ (mode = "engine" /\ edges = Diamond /\ source = 0 /\ sink = 3
               => maxFlow = 4)
        /\ \A c \in 1 .. 100 : Triangle(c) => maxFlow = 2 * c

C1_Witness ==
    /\ pc = "done"
    /\ mode = "engine"
    /\ edges = Diamond
    /\ source = 0
    /\ sink = 3
    /\ maxFlow = 4

\* C2: maxflow runs to completion: once called it returns, after finitely many
\* augmentations; and every bfs and every walk along the predecessor chain
\* ends: from inside bfs's loop or either for loop, control reaches the end of
\* the iteration of the while loop (the next call of bfs) or the return.
C2_MaxflowTerminates ==
    /\ (pc = "loaded") ~> (pc = "returned")
    /\ (pc \in {"bfs_loop", "walk_min", "walk_update"}) ~> (pc \in {"bfs", "returned"})

C2_Witness ==
    /\ pc = "returned"
    /\ n = 3
    /\ source = 0
    /\ sink = 2
    /\ maxFlow > initial[0][2]
    /\ initial[0][2] > 0

\* the flow the final residual matrix carries from i to j, net of the flow
\* from j to i
NetFlow(i, j) == initial[i][j] - capacity[i][j]

Abs(x) == IF x < 0 THEN 0 - x ELSE x

\* the list the documentation of getUsedCorridors describes: for the pairs
\* i < j in order, the net flow carried across {i, j} wherever it is not zero
RECURSIVE NetFlowList(_)
NetFlowList(ps) ==
    IF ps = << >> THEN << >>
    ELSE IF NetFlow(ps[1][1], ps[1][2]) # 0
         THEN << <<ps[1][1], ps[1][2], Abs(NetFlow(ps[1][1], ps[1][2]))>> >>
                  \o NetFlowList(Tail(ps))
         ELSE NetFlowList(Tail(ps))

\* C3: solve reports, for each corridor {i, j} with i < j that carried a net
\* flow, the triple (i, j, net flow) and omits the corridors that carried none.
C3_UsedEdgesAreNetFlows ==
    pc = "done" /\ mode = "driver" => usedCorridors = NetFlowList(Pairs(n))

\* C4 as stated: for every corridor {u, v} -> c loaded into the engine,
\* residual[u][v] + residual[v][u] = c in every state from then on.
C4_PairSumIsCapacity ==
    Loaded /\ mode = "driver" =>
        \A p \in DOMAIN corridorCapacity :
            capacity[p[1]][p[2]] + capacity[p[2]][p[1]] = corridorCapacity[p]

\* C4 amended: solve adds every corridor in both directions, so for every
\* corridor {u, v} -> c loaded into the engine
\* residual[u][v] + residual[v][u] = 2c in every state from then on.
C4_PairSumIsTwiceCapacity ==
    Loaded /\ mode = "driver" =>
        \A p \in DOMAIN corridorCapacity :
            capacity[p[1]][p[2]] + capacity[p[2]][p[1]] = 2 * corridorCapacity[p]

C4_Witness ==
    /\ pc = "walk_update"
    /\ mode = "driver"
    /\ v = source
    /\ \E p \in DOMAIN corridorCapacity :
          /\ capacity[p[1]][p[2]] # corridorCapacity[p]
          /\ capacity[p[1]][p[2]] + capacity[p[2]][p[1]] = 2 * corridorCapacity[p]

\* C5: no entry of the residual matrix is ever negative.
C5_ResidualNonNegative ==
    \A u \in Nodes(n), w \in Nodes(n) : capacity[u][w] >= 0

C5_Witness ==
    /\ pc = "bfs"
    /\ flow > 0
    /\ \E u \in Nodes(n), w \in Nodes(n) : initial[u][w] > 0 /\ capacity[u][w] = 0
    /\ \E u \in Nodes(n), w \in Nodes(n) :
          capacity[u][w] > 0 /\ capacity[u][w] < initial[u][w]

\* the residual decrease on the arcs entering x and on the arcs leaving x
DecreaseInto(x) ==
    SumNodes([u \in Nodes(n) |-> Max(0, initial[u][x] - capacity[u][x])], n)

DecreaseOutOf(x) ==
    SumNodes([w \in Nodes(n) |-> Max(0, initial[x][w] - capacity[x][w])], n)

\* C6: between augmentations and after maxflow, the residual decrease into
\* every node other than source and sink equals the residual decrease out of
\* it, and the net amount leaving source is the flow value.
C6_FlowConservation ==
    BetweenAugmentations =>
        /\ \A x \in Nodes(n) \ {source, sink} : DecreaseInto(x) = DecreaseOutOf(x)
        /\ DecreaseOutOf(source) - DecreaseInto(source) = flow

C6_Witness ==
    /\ pc = "bfs"
    /\ flow > 0
    /\ \E x \in Nodes(n) \ {source, sink} : DecreaseInto(x) > 0

\* C7: no triple solve reports carries a value above the capacity the network
\* builder assigned to its corridor.
C7_ReportedFlowWithinCapacity ==
    pc = "done" /\ mode = "driver" =>
        \A i \in 1 .. Len(usedCorridors) :
            LET p == <<usedCorridors[i][1], usedCorridors[i][2]>> IN
            /\ p \in DOMAIN corridorCapacity
            /\ usedCorridors[i][3] <= corridorCapacity[p]

\* the habitats joined to a habitat of S by a path of corridors
RECURSIVE Reach(_)
Reach(S) ==
    LET T == S \cup {w \in Nodes(n) :
                        \E u \in S : <<u, w>> \in DOMAIN corridorCapacity
                                     \/ <<w, u>> \in DOMAIN corridorCapacity}
    IN  IF T = S THEN S ELSE Reach(T)

\* C8: when no path of feasible corridors joins source and sink, solve returns
\* the flow value 0 and an empty list of used edges.
C8_DisconnectedGivesNothing ==
    pc = "done" /\ mode = "driver" /\ sink \notin Reach({source}) =>
        maxFlow = 0 /\ usedCorridors = << >>

\* 100 * (1 - d / m)^2 >= k for the distance d = sqrt(d2) <= m, in exact
\* arithmetic: 100 * (m^2 + d2) - k * m^2 >= 200 * m * d
ExactAtLeast(d2, m, k) ==
    LET l == 100 * (m * m + d2) - k * m * m
    IN  l >= 0 /\ l * l >= 40000 * m * m * d2

\* floor(100 * (1 - d / m)^2) for the distance d = sqrt(d2) <= m
ExactFloor(d2, m) ==
    CHOOSE k \in 0 .. 100 :
        ExactAtLeast(d2, m, k) /\ (k < 100 => ~ExactAtLeast(d2, m, k + 1))

\* C9: after buildCorridorNetwork(maxDist) the map holds the pair (i, j) iff
\* i < j and the distance of i and j is at most maxDist; every capacity is
\* max(1, floor(100 * (1 - d / maxDist)^2)), in 1 .. 100; no pair is stored
\* with capacity 0 or in both orders.
C9_CorridorMap ==
    pc = "built" =>
        /\ \A i \in Nodes(n), j \in Nodes(n) :
              <<i, j>> \in DOMAIN corridorCapacity
                  <=> (i < j /\ squaredDistance(habitatLocations, i, j)
                                    <= maxDist * maxDist)
        /\ \A p \in DOMAIN corridorCapacity :
              /\ corridorCapacity[p] \in 1 .. 100
              /\ corridorCapacity[p] =
                     Max(1, ExactFloor(squaredDistance(habitatLocations, p[1], p[2]),
                                       maxDist))
              /\ <<p[2], p[1]>> \notin DOMAIN corridorCapacity

\* the value maxflow returns on the network whose k-th edge has d more capacity
RaisedFlow(k, d) ==
    maxflow(AddEdges(NewMaxFlow(n), [edges EXCEPT ![k][3] = @ + d]), n, source, sink)

\* C10: a network that differs from this one only in a larger capacity of one
\* edge (same nodes, same edges in the same order, same source and sink) has
\* a maxflow value at least as large.
C10_Monotone ==
    pc = "returned" =>
        \A k \in 1 .. Len(edges), d \in 1 .. MaxIncrease : RaisedFlow(k, d) >= maxFlow

C10_Witness ==
    /\ pc = "returned"
    /\ maxFlow > 0
    /\ \E k \in 1 .. Len(edges) : RaisedFlow(k, 1) > maxFlow
    /\ \E k \in 1 .. Len(edges) : edges[k][3] > 0 /\ RaisedFlow(k, 1) = maxFlow

\* the number of arcs of the predecessor chain of par from w back to s, -1 when
\* the chain does not arrive at s within fuel arcs
RECURSIVE ChainLen(_, _, _, _)
ChainLen(par, w, s, fuel) ==
    IF w = s THEN 0
    ELSE IF fuel = 0 \/ par[w] \notin Nodes(n) THEN -1
    ELSE LET r == ChainLen(par, par[w], s, fuel - 1)
         IN  IF r = -1 THEN -1 ELSE r + 1

\* every arc par[x] -> x of the chain from w back to s has positive capacity
RECURSIVE ChainPositive(_, _, _, _, _)
ChainPositive(cap, par, w, s, fuel) ==
    \/ w = s
    \/ /\ fuel > 0
       /\ par[w] \in Nodes(n)
       /\ cap[par[w]][w] > 0
       /\ ChainPositive(cap, par, par[w], s, fuel - 1)

\* the fewest arcs of a path to t in the graph of the arcs of positive
\* capacity, S being the nodes at most d arcs away from the start; -1 when
\* there is no such path
RECURSIVE ResidualDistance(_, _, _, _)
ResidualDistance(cap, S, t, d) ==
    IF t \in S THEN d
    ELSE LET T == S \cup {w \in Nodes(n) : \E u \in S : cap[u][w] > 0}
         IN  IF T = S THEN -1 ELSE ResidualDistance(cap, T, t, d + 1)

\* C11: whenever bfs has returned true, the predecessor chain of parent from
\* sink back to source is a path of arcs of positive residual capacity, and
\* no path of positive arcs from source to sink in the residual graph has
\* fewer arcs.
C11_ShortestAugmentingPath ==
    pc = "walk_min" =>
        /\ ChainLen(parent, sink, source, n) >= 1
        /\ ChainPositive(capacity, parent, sink, source, n)
        /\ ChainLen(parent, sink, source, n)
               = ResidualDistance(capacity, {source}, sink, 0)

C11_Witness ==
    /\ pc = "walk_min"
    /\ flow > 0
    /\ ChainLen(parent, sink, source, n) = 3
    /\ \E a \in Nodes(n), b \in Nodes(n) : capacity[a][b] > 0 /\ initial[a][b] = 0

\* the adjacency lists in which only the first call of cs that connects u and
\* w, in either direction, records w for u and u for w; seen holds the pairs
\* connected so far
RECURSIVE FirstConnections(_, _, _)
FirstConnections(cs, seen, ad) ==
    IF cs = << >> THEN ad
    ELSE LET u == cs[1][1]
             w == cs[1][2]
         IN  IF {u, w} \in seen
             THEN FirstConnections(Tail(cs), seen, ad)
             ELSE FirstConnections(Tail(cs), seen \cup {{u, w}},
                                   [[ad EXCEPT ![u] = Append(@, w)]
                                        EXCEPT ![w] = Append(@, u)])

NoDuplicates(l) == \A i \in 1 .. Len(l), j \in 1 .. Len(l) : l[i] = l[j] => i = j

\* C12: after any sequence of addEdge(u, v, cap) calls with cap >= 0 the
\* adjacency lists are those recorded by the first call that connects each
\* pair, no list holds a neighbour twice, and no step of maxflow or of
\* getUsedCorridors changes a list.
C12_AdjacencyRecordedOnce ==
    /\ [](/\ adj = FirstConnections(edges, {}, NewMaxFlow(n).adj)
          /\ \A u \in Nodes(n) : NoDuplicates(adj[u]))
    /\ [][pc \notin {"fresh", "built"} => adj' = adj]_vars

\* C13: when source = sink, bfs never reports the sink as reached (the
\* predecessor of sink is set before the search), maxflow makes no
\* augmentation, returns 0 and leaves every entry of the residual matrix as
\* it was.
C13_SourceIsSink ==
    source = sink =>
        /\ pc \notin {"walk_min", "walk_update"}
        /\ pc = "bfs_loop" => parent[sink] = source
        /\ pc \in {"bfs", "bfs_loop", "returned", "done"} =>
               capacity = initial /\ flow = 0
        /\ pc \in {"returned", "done"} => maxFlow = 0

C13_Witness ==
    /\ source = sink
    /\ pc = "returned"
    /\ maxFlow = 0
    /\ \E w \in Nodes(n) : capacity[source][w] > 0 /\ capacity[w][sink] > 0

=============================================================================
